---------------------------- MODULE Spec2Model ----------------------------
(***************************************************************************)
(* A model of github.com/supabase/hibp: the Pwned Passwords client.        *)
(*                                                                         *)
(*   - pwnedResultBuffer.Parse / Lookup as operators over byte sequences   *)
(*     (a byte is its integer value, so bytes.Compare is integer order);   *)
(*   - refcountBox.Acquire / Release, PwnedClient.doCheck / releaseRequest *)
(*     / doRequest / Check as a state machine over concurrent callers,     *)
(*     one action per step between two accesses to shared state.           *)
(*                                                                         *)
(* Specifications: Spec (a client with a cache), SpecCoalesce (callers of  *)
(* one prefix, no cache), SpecRequest (passwords of two prefixes, the      *)
(* request), SpecCancel (contexts that are cancelled), SpecParse (a         *)
(* pwnedResultBuffer on its own) and SpecSkipped (the same, on bodies with *)
(* lines the pattern does not match).                                      *)
(***************************************************************************)
EXTENDS Integers, Sequences, FiniteSets, TLC

(***************************************************************************)
(* Bounds of the model.                                                    *)
(***************************************************************************)
NCallers       == 2   \* goroutines that call Check
MaxChecks      == 4   \* Check calls started in one behaviour
MaxBoxes       == 3   \* refcountBox values created in one behaviour
NCacheCallers  == 2   \* goroutines that call Check, client with a cache
MaxCacheChecks == 2   \* Check calls started in one behaviour, client with a cache
MaxLines       == 3   \* lines of a response body that is parsed on its own
NRequestCallers  == 2 \* goroutines that call Check, passwords of two prefixes
MaxRequestChecks == 2 \* Check calls started in one behaviour, passwords of two prefixes
NCancelCallers   == 2 \* goroutines that call Check and may cancel their context
MaxCancelChecks  == 2 \* Check calls started in one behaviour, contexts that may be cancelled

(***************************************************************************)
(* Program constants.                                                      *)
(***************************************************************************)
SuffixLen == 35     \* [0-9A-F]{35} of pwnedLinePattern
PrefixLen == 5      \* hexsum[:5]
Colon     == 58     \* ':' of pwnedLinePattern
NewLine   == 10     \* '\n', the delimiter of ReadBytes
ZeroDigit == 48     \* '0', the occurrence of a padding line
StatusOK  == 200    \* http.StatusOK
StatusBadRequest == 400   \* http.StatusBadRequest, a status that is not 200

Min(S) == CHOOSE x \in S : \A y \in S : x <= y

IsDigit(b)    == b \in 48..57                   \* [0-9]
IsHexUpper(b) == b \in (48..57) \cup (65..70)   \* [0-9A-F]
IsSpace(b)    == b \in {9, 10, 12, 13, 32}      \* \s of Go's regexp: [\t\n\f\r ]

(***************************************************************************)
(* bytes.Compare and bytes.Equal.                                          *)
(***************************************************************************)
Compare(a, b) ==
    LET n     == IF Len(a) < Len(b) THEN Len(a) ELSE Len(b)
        diffs == {i \in 1..n : a[i] # b[i]}
    IN  IF diffs # {}
        THEN (IF a[Min(diffs)] < b[Min(diffs)] THEN -1 ELSE 1)
        ELSE IF Len(a) < Len(b) THEN -1
        ELSE IF Len(a) > Len(b) THEN 1
        ELSE 0

Equal(a, b) == a = b

(***************************************************************************)
(* bytes.Buffer.ReadBytes(delim): the bytes up to and including the first  *)
(* delim, or, when there is none, all that is left together with io.EOF.   *)
(***************************************************************************)
ReadBytes(buffer, delim) ==
    LET hits == {i \in 1..Len(buffer) : buffer[i] = delim}
    IN  IF hits = {}
        THEN [line |-> buffer, rest |-> <<>>, eof |-> TRUE]
        ELSE [line |-> SubSeq(buffer, 1, Min(hits)),
              rest |-> SubSeq(buffer, Min(hits) + 1, Len(buffer)),
              eof  |-> FALSE]

(***************************************************************************)
(* pwnedLinePattern.FindSubmatch(line) for ^([0-9A-F]{35}):([0-9]+)\s*$ :  *)
(* <<>> when the line does not match (nil), <<suffix, occurrence>> when it *)
(* does.  Digits and white space are disjoint, so the second group is the  *)
(* whole run of digits after the colon.                                    *)
(***************************************************************************)
FindSubmatch(line) ==
    LET n       == Len(line)
        first   == SuffixLen + 2
        nondig  == {i \in first..n : ~IsDigit(line[i])}
        lastdig == IF nondig = {} THEN n ELSE Min(nondig) - 1
    IN  IF /\ n >= first
           /\ \A i \in 1..SuffixLen : IsHexUpper(line[i])
           /\ line[SuffixLen + 1] = Colon
           /\ lastdig >= first
           /\ \A i \in (lastdig + 1)..n : IsSpace(line[i])
        THEN <<SubSeq(line, 1, SuffixLen), SubSeq(line, first, lastdig)>>
        ELSE <<>>

\* A Parse that compares the suffix with the first one appended.
ParseLineFirst(buf, matches) ==
    LET suffix     == matches[1]
        occurrence == matches[2]
        n          == Len(buf.Suffixes)
        sorted     == IF /\ buf.SuffixesSorted
                         /\ n > 0
                         /\ Compare(buf.Suffixes[1], suffix) >= 0
                      THEN FALSE
                      ELSE buf.SuffixesSorted
        suffixes   == IF \/ Len(occurrence) > 1
                         \/ (Len(occurrence) = 1 /\ occurrence[1] # ZeroDigit)
                      THEN Append(buf.Suffixes, suffix)
                      ELSE buf.Suffixes
    IN  [buf EXCEPT !.SuffixesSorted = sorted, !.Suffixes = suffixes]

(***************************************************************************)
(* One turn of the loop of pwnedResultBuffer.Parse on a line that matched. *)
(***************************************************************************)
ParseLine(buf, matches) ==
    LET suffix     == matches[1]
        occurrence == matches[2]
        n          == Len(buf.Suffixes)
        sorted     == IF /\ buf.SuffixesSorted
                         /\ n > 0
                         /\ Compare(buf.Suffixes[n], suffix) >= 0
                      THEN FALSE
                      ELSE buf.SuffixesSorted
        suffixes   == IF \/ Len(occurrence) > 1
                         \/ (Len(occurrence) = 1 /\ occurrence[1] # ZeroDigit)
                      THEN Append(buf.Suffixes, suffix)
                      ELSE buf.Suffixes
    IN  [buf EXCEPT !.SuffixesSorted = sorted, !.Suffixes = suffixes]

\* A Parse that leaves its loop on io.EOF before it matches the line read.
ParseTurnBreak(buf) ==
    LET r       == ReadBytes(buf.Buffer, NewLine)
        matches == FindSubmatch(r.line)
        read    == [buf EXCEPT !.Buffer = r.rest]
    IN  [buf     |-> IF matches = <<>> \/ r.eof THEN read ELSE ParseLine(read, matches),
         running |-> ~r.eof]

(***************************************************************************)
(* One turn of the loop of Parse: read a line, match it, and when it       *)
(* matches take it in; running is false once ReadBytes returned io.EOF.    *)
(***************************************************************************)
ParseTurn(buf) ==
    LET r       == ReadBytes(buf.Buffer, NewLine)
        matches == FindSubmatch(r.line)
        read    == [buf EXCEPT !.Buffer = r.rest]
    IN  [buf     |-> IF matches = <<>> THEN read ELSE ParseLine(read, matches),
         running |-> ~r.eof]

RECURSIVE ParseLoop(_)
ParseLoop(buf) ==
    LET turn == ParseTurn(buf)
    IN  IF turn.running THEN ParseLoop(turn.buf) ELSE turn.buf

(***************************************************************************)
(* pwnedResultBuffer.Parse: buf is [Buffer, SuffixesSorted, Suffixes]; the *)
(* deferred Buffer.Reset leaves the raw bytes empty.                       *)
(***************************************************************************)
Parse(buf) ==
    [ParseLoop([buf EXCEPT !.SuffixesSorted = TRUE]) EXCEPT !.Buffer = <<>>]

(***************************************************************************)
(* sort.Search(n, f): the smallest i in [0, n) with f(i), else n, by       *)
(* bisection; here f(i) is bytes.Compare(Suffixes[i], suffix) >= 0 and     *)
(* indices are 0-based as in the source.                                   *)
(***************************************************************************)
RECURSIVE SearchLoop(_, _, _, _)
SearchLoop(suffixes, suffix, i, j) ==
    IF i < j
    THEN LET h == (i + j) \div 2
         IN  IF ~(Compare(suffixes[h + 1], suffix) >= 0)
             THEN SearchLoop(suffixes, suffix, h + 1, j)
             ELSE SearchLoop(suffixes, suffix, i, h)
    ELSE i

\* A Lookup that bisects whatever SuffixesSorted says.
LookupBinaryOnly(buf, suffix) ==
    LET index == SearchLoop(buf.Suffixes, suffix, 0, Len(buf.Suffixes))
    IN  IF index < Len(buf.Suffixes)
        THEN Equal(suffix, buf.Suffixes[index + 1])
        ELSE FALSE

(***************************************************************************)
(* pwnedResultBuffer.Lookup.                                               *)
(***************************************************************************)
Lookup(buf, suffix) ==
    IF ~buf.SuffixesSorted
    THEN \E k \in 1..Len(buf.Suffixes) : Equal(buf.Suffixes[k], suffix)
    ELSE LET index == SearchLoop(buf.Suffixes, suffix, 0, Len(buf.Suffixes))
         IN  IF index < Len(buf.Suffixes)
             THEN Equal(suffix, buf.Suffixes[index + 1])
             ELSE FALSE

(***************************************************************************)
(* sha1.Sum, hex.EncodeToString and strings.ToUpper of Check, as the table *)
(* of the digests of the passwords the callers use.  "password1" and       *)
(* "pw967768" share the prefix E38AD; "hunter2" has the prefix F3BBB.      *)
(***************************************************************************)
Passwords == {"password1", "pw967768", "hunter2"}

Sha1Hex(password) ==
    CASE password = "password1" ->
           <<69, 51, 56, 65, 68, 50, 49, 52, 57, 52, 51, 68, 65, 65, 68, 49, 68, 54, 52, 67,
             49, 48, 50, 70, 65, 69, 67, 50, 57, 68, 69, 52, 65, 70, 69, 57, 68, 65, 51, 68>>
      [] password = "pw967768" ->
           <<69, 51, 56, 65, 68, 50, 54, 55, 55, 53, 66, 65, 54, 53, 54, 55, 53, 66, 50, 54,
             48, 65, 65, 65, 70, 49, 68, 67, 67, 55, 52, 52, 52, 69, 65, 53, 48, 70, 50, 57>>
      [] password = "hunter2" ->
           <<70, 51, 66, 66, 66, 68, 54, 54, 65, 54, 51, 68, 52, 66, 70, 49, 55, 52, 55, 57,
             52, 48, 53, 55, 56, 69, 67, 51, 68, 48, 49, 48, 51, 53, 51, 48, 69, 50, 49, 68>>

\* A Check that passes the whole hash on as the prefix.
PrefixOfWhole(password) == Sha1Hex(password)

PrefixOf(password) == SubSeq(Sha1Hex(password), 1, PrefixLen)
SuffixOf(password) == SubSeq(Sha1Hex(password), PrefixLen + 1, Len(Sha1Hex(password)))

Prefixes == {PrefixOf(pw) : pw \in Passwords}

(***************************************************************************)
(* What the transport (the HTTP field) may answer to one Do.  A response   *)
(* body is a sequence of lines HEXSUFFIX:COUNT; the bodies below are       *)
(*   BodyPadded  the suffix of "pw967768" three times, then the suffix of  *)
(*               "password1" as a padding line (count 0);                  *)
(*   BodyGarbage a body without any line of the pattern.                   *)
(***************************************************************************)
CRLF == <<13, 10>>
Line(suffix, count) == suffix \o <<Colon>> \o count \o CRLF

BodyPadded  == Line(SuffixOf("pw967768"), <<51>>) \o Line(SuffixOf("password1"), <<ZeroDigit>>)
BodyGarbage == <<66, 97, 100, 32, 82, 101, 113, 117, 101, 115, 116, 10>>
Bodies      == {BodyPadded, BodyGarbage}

(***************************************************************************)
(* The request doRequest hands to client.Do: a GET of PwnedPasswordsURL of *)
(* the prefix, with the User-Agent header.                                 *)
(***************************************************************************)
DefaultUserAgent == "https://github.com/supabase/hibp"

\* "https://api.pwnedpasswords.com/range/"
RangeURL ==
    <<104, 116, 116, 112, 115, 58, 47, 47, 97, 112, 105, 46, 112, 119, 110, 101, 100, 112, 97,
      115, 115, 119, 111, 114, 100, 115, 46, 99, 111, 109, 47, 114, 97, 110, 103, 101, 47>>

PwnedPasswordsURL(prefix) == RangeURL \o prefix

NewRequest(prefix, userAgent) ==
    [method    |-> "GET",
     url       |-> PwnedPasswordsURL(prefix),
     userAgent |-> IF userAgent = "" THEN DefaultUserAgent ELSE userAgent]

\* No request built yet.
NoRequest == [method |-> "", url |-> <<>>, userAgent |-> ""]

\* err: Do returns (nil, err); otherwise a response with the status and a
\* body whose Read fails (readErr) or yields the bytes of body.
DoFails      == [err |-> TRUE, status |-> 0, readErr |-> FALSE, body |-> <<>>]
DoBadRequest == [err |-> FALSE, status |-> StatusBadRequest, readErr |-> FALSE, body |-> BodyGarbage]
DoReadFails  == [err |-> FALSE, status |-> StatusOK, readErr |-> TRUE, body |-> <<>>]
DoOK(body)   == [err |-> FALSE, status |-> StatusOK, readErr |-> FALSE, body |-> body]

\* No answer yet.
DoNothing    == [err |-> FALSE, status |-> 0, readErr |-> FALSE, body |-> <<>>]

DoOutcomes == {DoFails, DoBadRequest, DoReadFails} \cup {DoOK(b) : b \in Bodies}

\* What client.Do may answer on account of the context of the request, the
\* ctx of http.NewRequestWithContext: once it is cancelled, (nil, ctx.Err()).
ContextOutcomes(ctx, done) == IF ctx \in done THEN {DoFails} ELSE {}

VARIABLES
    pc,         \* pc[c]: where caller c stands in Check
    call,       \* call[c]: the locals of c's current (or last) Check call
    boxes,      \* the refcountBox values created so far, by creation order
    requests,   \* c.requests: prefix -> index of a box, 0 when the key is absent
    lock,       \* c.lock: 0 when free, else the caller that holds it
    Cache,      \* whether c.Cache is set
    HTTP,       \* c.HTTP: the answers the configured transport may give to a Do
    UserAgent,  \* c.UserAgent
    cancelled,  \* the callers whose context (the ctx of their Check calls) is cancelled
    stored,     \* what the cache collaborator holds: pairs <<prefix, suffix>>
    called,     \* called[p]: the calls of the transport's Do for prefix p
    quota,      \* the Check calls that may still be started
    panicked,   \* the process died of a nil function call
    example,    \* the response body a pwnedResultBuffer was filled with, line by line
    result,     \* that pwnedResultBuffer
    step,       \* where the call of Parse or Lookup on it stands
    looked      \* the last call of Lookup on it: its argument and what it returned

\* The variables of the buffer that is parsed on its own.
parseVars == <<example, result, step, looked>>

\* The variables of the client and its callers.
clientVars == <<pc, call, boxes, requests, lock, Cache, HTTP, UserAgent, cancelled, stored,
                called, quota, panicked>>

vars == <<clientVars, parseVars>>

Callers == 1..NCallers

\* (*http.Response, error) of doRequest: resp is <<>> for a nil response and
\* <<box, run>> for the response of that run; err is "nil" or names the failure;
\* isBuf says res.Body is the pwnedResultBuffer buf.
NoResult == [resp |-> <<>>, status |-> 0, err |-> "nil", isBuf |-> FALSE]

EmptyBuffer == [Buffer |-> <<>>, SuffixesSorted |-> FALSE, Suffixes |-> <<>>]

\* (bool, error) of Check: err is "nil" or names the failure; resp is the
\* Response of an *ErrorUnexpectedResponse.
Ret(found, err, resp) == [found |-> found, err |-> err, resp |-> resp]
NoRet == Ret(FALSE, "none", <<>>)

NoCall == [pw |-> "none", contains |-> "none", box |-> 0, ret |-> NoRet]


(***************************************************************************)
(* A refcountBox as doCheck builds it for prefix p on behalf of caller c.  *)
(* Refcount, OnRelease (TRUE: the closure, FALSE: nil), ctx (the caller    *)
(* whose context the closure captured) and the state of Value (the         *)
(* sync.OnceValues: once, req, res, and buf, the pwnedResultBuffer its     *)
(* closure owns) are the program's; the other fields record what has       *)
(* happened to the box: the calls of Acquire and Release, the holders that *)
(* returned from Check, the calls of OnRelease, the runs of doRequest, the *)
(* answer of the transport, the calls of Parse and of Cache.Add, and the   *)
(* arguments and the result of the last Cache.Add.                         *)
(***************************************************************************)
NewBox(p, c) ==
    [prefix |-> p, ctx |-> c,
     Refcount |-> 0, OnRelease |-> TRUE,
     once |-> "new", req |-> NoRequest, res |-> NoResult, buf |-> EmptyBuffer,
     acquires |-> 0, releases |-> 0, returned |-> 0, onReleaseCalls |-> 0,
     runs |-> 0, out |-> DoNothing, parses |-> 0, adds |-> 0,
     addPrefix |-> <<>>, addSuffixes |-> <<>>, addErr |-> "nil"]

\* refcountBox.Acquire: atomic.AddInt32(&b.Refcount, 1).
Acquire(box) == [box EXCEPT !.Refcount = @ + 1, !.acquires = @ + 1]

\* A doCheck that never finds the prefix in the table.
LookupRequestMiss(reqs, p) == 0

\* box, ok := c.requests[prefixString]: the index of the box, 0 when !ok.
LookupRequest(reqs, p) == reqs[p]

\* A releaseRequest that leaves the entry in the table.
DeleteRequestSkip(reqs, p) == reqs

\* delete(c.requests, prefix).
DeleteRequest(reqs, p) == [reqs EXCEPT ![p] = 0]

\* A Check that does not look at the contains of Cache.Contains.
CheckCacheNoHit(contains, err) ==
    IF err # "nil"
    THEN [returns |-> TRUE, ret |-> Ret(contains, err, <<>>)]
    ELSE [returns |-> FALSE, ret |-> NoRet]

\* A Check that does not look at the err of Cache.Contains.
CheckCacheNoErr(contains, err) ==
    IF contains
    THEN [returns |-> TRUE, ret |-> Ret(TRUE, "nil", <<>>)]
    ELSE [returns |-> FALSE, ret |-> NoRet]

\* What Check does with (contains, err) of Cache.Contains: return at once
\* (returns) with ret, or go on to doCheck.
CheckCache(contains, err) ==
    IF err # "nil"
    THEN [returns |-> TRUE, ret |-> Ret(contains, err, <<>>)]
    ELSE IF contains
    THEN [returns |-> TRUE, ret |-> Ret(TRUE, "nil", <<>>)]
    ELSE [returns |-> FALSE, ret |-> NoRet]

\* The answers the cache collaborator may give to Contains(prefix, suffix).
ContainsOutcomes(prefix, suffix) ==
    {[contains |-> <<prefix, suffix>> \in stored, err |-> "nil"]}
    \cup {[contains |-> b, err |-> "contains"] : b \in BOOLEAN}

\* A Check that does not look at res.StatusCode.
CheckResultAnyStatus(res, buf, suffix) ==
    IF res.err # "nil"
    THEN Ret(FALSE, res.err, <<>>)
    ELSE Ret(Lookup(buf, suffix), "nil", <<>>)

\* Check after box.Value() returned (res, err): the (bool, error) it returns.
CheckResult(res, buf, suffix) ==
    IF res.err # "nil"
    THEN Ret(FALSE, res.err, <<>>)
    ELSE IF res.status # StatusOK
    THEN Ret(FALSE, "unexpected", res.resp)
    ELSE Ret(Lookup(buf, suffix), "nil", <<>>)

\* A doRequest that does not look at the err of buf.Buffer.ReadFrom.
ReadResponseNoReadErr(box, out, id) ==
    IF out.err
    THEN [box EXCEPT !.res = [resp |-> <<>>, status |-> 0, err |-> "transport", isBuf |-> FALSE]]
    ELSE IF out.status # StatusOK
    THEN [box EXCEPT !.res = [resp |-> id, status |-> out.status, err |-> "nil", isBuf |-> FALSE]]
    ELSE [box EXCEPT !.res = [resp |-> id, status |-> out.status, err |-> "nil", isBuf |-> FALSE],
                     !.buf = Parse([@ EXCEPT !.Buffer = out.body]),
                     !.parses = @ + 1]

\* doRequest from the return of client.Do to the call of Cache.Add or to its
\* own return: the box with res and buf as doRequest leaves them.
ReadResponse(box, out, id) ==
    IF out.err
    THEN [box EXCEPT !.res = [resp |-> <<>>, status |-> 0, err |-> "transport", isBuf |-> FALSE]]
    ELSE IF out.status # StatusOK
    THEN [box EXCEPT !.res = [resp |-> id, status |-> out.status, err |-> "nil", isBuf |-> FALSE]]
    ELSE IF out.readErr
    THEN [box EXCEPT !.res = [resp |-> id, status |-> out.status, err |-> "read", isBuf |-> FALSE]]
    ELSE [box EXCEPT !.res = [resp |-> id, status |-> out.status, err |-> "nil", isBuf |-> FALSE],
                     !.buf = Parse([@ EXCEPT !.Buffer = out.body]),
                     !.parses = @ + 1]

\* A doRequest that calls Cache.Add whatever the number of suffixes.
ShouldAddEmpty(box) ==
    /\ box.res.err = "nil"
    /\ box.res.status = StatusOK
    /\ Cache

\* if c.Cache != nil && len(buf.Suffixes) > 0, reached after buf.Parse().
ShouldAdd(box) ==
    /\ box.res.err = "nil"
    /\ box.res.status = StatusOK
    /\ Cache
    /\ Len(box.buf.Suffixes) > 0

\* A doRequest that drops the error of Cache.Add.
AddResultDropErr(res, err) == [res EXCEPT !.isBuf = TRUE]

\* doRequest after Cache.Add returned err: return res, err, or res.Body = buf
\* and return res, nil.
AddResult(res, err) ==
    IF err # "nil" THEN [res EXCEPT !.err = err] ELSE [res EXCEPT !.isBuf = TRUE]

\* A doRequest that hands Cache.Add the suffixes without the last one.
AddCallShort(box) ==
    [prefix |-> box.prefix,
     suffixes |-> SubSeq(box.buf.Suffixes, 1, Len(box.buf.Suffixes) - 1)]

\* The arguments of c.Cache.Add(ctx, prefix, buf.Suffixes).
AddCall(box) == [prefix |-> box.prefix, suffixes |-> box.buf.Suffixes]

\* doRequest returns without calling Cache.Add.
NoAddResult(res) ==
    IF res.err = "nil" /\ res.status = StatusOK THEN [res EXCEPT !.isBuf = TRUE] ELSE res

------------------------------------------------------------------------------
\* The zero value of a PwnedClient, but for its Cache and HTTP fields.
InitClient ==
    /\ pc = [c \in Callers |-> "idle"]
    /\ call = [c \in Callers |-> NoCall]
    /\ boxes = <<>>
    /\ requests = [p \in Prefixes |-> 0]
    /\ lock = 0
    /\ stored = {}
    /\ called = [p \in Prefixes |-> 0]
    /\ panicked = FALSE
    /\ cancelled = {}

\* No pwnedResultBuffer is parsed on its own.
NoLookup == [suffix |-> <<>>, found |-> FALSE]

InitNoBuffer ==
    /\ example = [lines |-> <<>>, eol |-> <<>>, last |-> FALSE]
    /\ result = EmptyBuffer
    /\ step = "none"
    /\ looked = NoLookup

\* A client with a cache and a transport that may answer anything.
Init ==
    /\ InitClient
    /\ InitNoBuffer
    /\ Cache = TRUE
    /\ HTTP = DoOutcomes
    /\ UserAgent = ""
    /\ quota = MaxCacheChecks

\* A client without a cache, as in TestSingleRequestForSamePrefix, whose
\* transport fails with context.Canceled.
InitCoalesce ==
    /\ InitClient
    /\ InitNoBuffer
    /\ Cache = FALSE
    /\ HTTP = {DoFails}
    /\ UserAgent = ""
    /\ quota = MaxChecks

(***************************************************************************)
(* Check, from its entry to the return of Cache.Contains: hash the         *)
(* password, and with a cache ask it; return on an error or a hit.         *)
(***************************************************************************)
Check(c, pw) ==
    /\ ~panicked
    /\ pc[c] = "idle"
    /\ \A d \in 1..(c - 1) : call[d].pw # "none"
    /\ quota > 0
    /\ quota' = quota - 1
    /\ IF Cache
       THEN \E o \in ContainsOutcomes(PrefixOf(pw), SuffixOf(pw)) :
              LET r == CheckCache(o.contains, o.err)
                  k == IF o.err # "nil" THEN "err"
                       ELSE IF o.contains THEN "hit" ELSE "miss"
              IN  /\ call' = [call EXCEPT ![c] =
                                [pw |-> pw, contains |-> k, box |-> 0, ret |-> r.ret]]
                  /\ pc' = [pc EXCEPT ![c] = IF r.returns THEN "idle" ELSE "doCheck"]
       ELSE /\ call' = [call EXCEPT ![c] = [NoCall EXCEPT !.pw = pw]]
            /\ pc' = [pc EXCEPT ![c] = "doCheck"]
    /\ UNCHANGED <<boxes, requests, lock, Cache, HTTP, UserAgent, cancelled, stored, called,
                   panicked, parseVars>>

(***************************************************************************)
(* doCheck under c.lock: look the prefix up, build and insert a box when   *)
(* it is absent, Acquire the box.                                          *)
(***************************************************************************)
doCheck(c) ==
    /\ ~panicked
    /\ pc[c] = "doCheck"
    /\ lock = 0
    /\ LET p     == PrefixOf(call[c].pw)
           found == LookupRequest(requests, p)
           ok    == found # 0
           b     == IF ok THEN found ELSE Len(boxes) + 1
           bs    == IF ok THEN boxes ELSE Append(boxes, NewBox(p, c))
       IN  /\ ok \/ Len(boxes) < MaxBoxes
           /\ boxes' = [bs EXCEPT ![b] = Acquire(@)]
           /\ requests' = [requests EXCEPT ![p] = b]
           /\ call' = [call EXCEPT ![c].box = b]
    /\ lock' = c
    /\ pc' = [pc EXCEPT ![c] = "doCheckUnlock"]
    /\ UNCHANGED <<Cache, HTTP, UserAgent, cancelled, stored, called, quota, panicked,
                   parseVars>>

\* A doCheck that returns without unlocking.
doCheckReturnLocked(c) ==
    /\ ~panicked
    /\ pc[c] = "doCheckUnlock"
    /\ lock = c
    /\ pc' = [pc EXCEPT ![c] = "Value"]
    /\ UNCHANGED <<call, boxes, requests, lock, Cache, HTTP, UserAgent, cancelled, stored,
                   called, quota, panicked, parseVars>>

\* The deferred c.lock.Unlock() of doCheck; Check goes on to box.Value().
doCheckReturn(c) ==
    /\ ~panicked
    /\ pc[c] = "doCheckUnlock"
    /\ lock = c
    /\ lock' = 0
    /\ pc' = [pc EXCEPT ![c] = "Value"]
    /\ UNCHANGED <<call, boxes, requests, Cache, HTTP, UserAgent, cancelled, stored, called,
                   quota, panicked, parseVars>>


\* A Value that runs the wrapped function on every call that finds it idle.
MustRunAgain(box) == box.once # "running"

\* sync.OnceValues: the wrapped function runs on the first call of Value only.
MustRun(box) == box.once = "new"

\* Check from the return of box.Value() to its deferred box.Release().
Returning(c, box) ==
    [call EXCEPT ![c].ret = CheckResult(box.res, box.buf, SuffixOf(call[c].pw))]

(***************************************************************************)
(* box.Value() by the first caller: the once-only function starts, and     *)
(* doRequest builds the request for the prefix and calls client.Do.        *)
(***************************************************************************)
ValueRun(c) ==
    /\ ~panicked
    /\ pc[c] = "Value"
    /\ LET b == call[c].box
       IN  /\ MustRun(boxes[b])
           /\ boxes' = [boxes EXCEPT ![b].once = "running", ![b].runs = @ + 1,
                                     ![b].req = NewRequest(boxes[b].prefix, UserAgent)]
           /\ called' = [called EXCEPT ![boxes[b].prefix] = @ + 1]
    /\ pc' = [pc EXCEPT ![c] = "Do"]
    /\ UNCHANGED <<call, requests, lock, Cache, HTTP, UserAgent, cancelled, stored, quota,
                   panicked, parseVars>>

\* box.Value() once the function has completed: the memoized (res, err).
ValueDone(c) ==
    /\ ~panicked
    /\ pc[c] = "Value"
    /\ LET b == call[c].box
       IN  /\ ~MustRun(boxes[b])
           /\ boxes[b].once = "done"
           /\ call' = Returning(c, boxes[b])
    /\ pc' = [pc EXCEPT ![c] = "Release"]
    /\ UNCHANGED <<boxes, requests, lock, Cache, HTTP, UserAgent, cancelled, stored, called,
                   quota, panicked, parseVars>>

(***************************************************************************)
(* client.Do returns: doRequest reads and parses the body of a 200, and    *)
(* either goes on to Cache.Add or returns, which completes Value.          *)
(***************************************************************************)
DoReturn(c) ==
    /\ ~panicked
    /\ pc[c] = "Do"
    /\ \E out \in HTTP \cup ContextOutcomes(boxes[call[c].box].ctx, cancelled) :
         LET b    == call[c].box
             read == [ReadResponse(boxes[b], out, <<b, boxes[b].runs>>) EXCEPT !.out = out]
             done == [read EXCEPT !.res = NoAddResult(@), !.once = "done"]
         IN  IF ShouldAdd(read)
             THEN /\ boxes' = [boxes EXCEPT ![b] = read]
                  /\ pc' = [pc EXCEPT ![c] = "Add"]
                  /\ UNCHANGED call
             ELSE /\ boxes' = [boxes EXCEPT ![b] = done]
                  /\ pc' = [pc EXCEPT ![c] = "Release"]
                  /\ call' = Returning(c, done)
    /\ UNCHANGED <<requests, lock, Cache, HTTP, UserAgent, cancelled, stored, called, quota,
                   panicked, parseVars>>

(***************************************************************************)
(* c.Cache.Add(ctx, prefix, buf.Suffixes) and the return of doRequest.     *)
(***************************************************************************)
CacheAdd(c) ==
    /\ ~panicked
    /\ pc[c] = "Add"
    /\ \E err \in {"nil", "add"} :
         LET b    == call[c].box
             done == [boxes[b] EXCEPT !.adds = @ + 1,
                                      !.addPrefix = AddCall(boxes[b]).prefix,
                                      !.addSuffixes = AddCall(boxes[b]).suffixes,
                                      !.addErr = err,
                                      !.res = AddResult(@, err),
                                      !.once = "done"]
         IN  /\ boxes' = [boxes EXCEPT ![b] = done]
             /\ call' = Returning(c, done)
             /\ stored' = IF err = "nil"
                          THEN stored \cup {<<done.addPrefix, done.addSuffixes[i]>> :
                                              i \in 1..Len(done.addSuffixes)}
                          ELSE stored
    /\ pc' = [pc EXCEPT ![c] = "Release"]
    /\ UNCHANGED <<requests, lock, Cache, HTTP, UserAgent, cancelled, called, quota,
                   panicked, parseVars>>

(***************************************************************************)
(* refcountBox.Release: atomic.AddInt32(&b.Refcount, -1); when the result  *)
(* is 0 the caller goes on to b.OnRelease(), else Check returns.           *)
(***************************************************************************)
Release(c) ==
    /\ ~panicked
    /\ pc[c] = "Release"
    /\ LET b    == call[c].box
           zero == boxes[b].Refcount - 1 = 0
       IN  /\ boxes' = [boxes EXCEPT ![b].Refcount = @ - 1,
                                     ![b].releases = @ + 1,
                                     ![b].returned = IF zero THEN @ ELSE @ + 1]
           /\ pc' = [pc EXCEPT ![c] = IF zero THEN "OnRelease" ELSE "idle"]
    /\ UNCHANGED <<call, requests, lock, Cache, HTTP, UserAgent, cancelled, stored, called,
                   quota, panicked, parseVars>>

\* b.OnRelease(): the call of the function the field holds; calling nil panics.
CallOnRelease(c) ==
    /\ ~panicked
    /\ pc[c] = "OnRelease"
    /\ LET b == call[c].box
       IN  IF boxes[b].OnRelease
           THEN /\ boxes' = [boxes EXCEPT ![b].onReleaseCalls = @ + 1]
                /\ pc' = [pc EXCEPT ![c] = "releaseRequest"]
                /\ UNCHANGED panicked
           ELSE /\ panicked' = TRUE
                /\ pc' = [pc EXCEPT ![c] = "panic"]
                /\ UNCHANGED boxes
    /\ UNCHANGED <<call, requests, lock, Cache, HTTP, UserAgent, cancelled, stored, called,
                   quota, parseVars>>

\* releaseRequest under c.lock: delete(c.requests, prefix).
releaseRequest(c) ==
    /\ ~panicked
    /\ pc[c] = "releaseRequest"
    /\ lock = 0
    /\ lock' = c
    /\ requests' = DeleteRequest(requests, boxes[call[c].box].prefix)
    /\ pc' = [pc EXCEPT ![c] = "releaseUnlock"]
    /\ UNCHANGED <<call, boxes, Cache, HTTP, UserAgent, cancelled, stored, called, quota,
                   panicked, parseVars>>

\* The deferred c.lock.Unlock() of releaseRequest (and the Puts to the pools).
releaseRequestReturn(c) ==
    /\ ~panicked
    /\ pc[c] = "releaseUnlock"
    /\ lock = c
    /\ lock' = 0
    /\ pc' = [pc EXCEPT ![c] = "Clear"]
    /\ UNCHANGED <<call, boxes, requests, Cache, HTTP, UserAgent, cancelled, stored, called,
                   quota, panicked, parseVars>>

\* b.OnRelease = nil, the end of Release; Check returns.
ClearOnRelease(c) ==
    /\ ~panicked
    /\ pc[c] = "Clear"
    /\ boxes' = [boxes EXCEPT ![call[c].box].OnRelease = FALSE,
                              ![call[c].box].returned = @ + 1]
    /\ pc' = [pc EXCEPT ![c] = "idle"]
    /\ UNCHANGED <<call, requests, lock, Cache, HTTP, UserAgent, cancelled, stored, called,
                   quota, panicked, parseVars>>

\* The caller of Check cancels the context it passed (or passes) as ctx.
Cancel(c) ==
    /\ ~panicked
    /\ pc[c] # "idle"
    /\ c \notin cancelled
    /\ cancelled' = cancelled \cup {c}
    /\ UNCHANGED <<pc, call, boxes, requests, lock, Cache, HTTP, UserAgent, stored, called,
                   quota, panicked, parseVars>>

\* The steps of caller c after the first step of its Check.
Step(c) ==
    \/ doCheck(c)
    \/ doCheckReturn(c)
    \/ ValueRun(c)
    \/ ValueDone(c)
    \/ DoReturn(c)
    \/ Release(c)
    \/ CallOnRelease(c)
    \/ releaseRequest(c)
    \/ releaseRequestReturn(c)
    \/ ClearOnRelease(c)

\* Callers of a client with a cache, for passwords that share a prefix.
Next ==
    \E c \in 1..NCacheCallers :
        \/ \E pw \in {"password1", "pw967768"} : Check(c, pw)
        \/ Step(c)
        \/ CacheAdd(c)

Spec == Init /\ [][Next]_vars

\* Callers of a client without a cache, all for one password.
NextCoalesce ==
    \E c \in Callers :
        \/ Check(c, "password1")
        \/ Step(c)

SpecCoalesce == InitCoalesce /\ [][NextCoalesce]_vars

\* A client without a cache, with or without a UserAgent of its own (as in
\* TestUserAgent), whose transport answers 200 with a body.
InitRequest ==
    /\ InitClient
    /\ InitNoBuffer
    /\ Cache = FALSE
    /\ HTTP = {DoOK(BodyPadded)}
    /\ UserAgent \in {"", "test"}
    /\ quota = MaxRequestChecks

\* Callers for passwords of two prefixes, two of them sharing theirs.
NextRequest ==
    \E c \in 1..NRequestCallers :
        \/ \E pw \in Passwords : Check(c, pw)
        \/ Step(c)

SpecRequest == InitRequest /\ [][NextRequest]_vars

\* A client without a cache whose transport answers 200 with a body unless
\* the context of the request is cancelled.
InitCancel ==
    /\ InitClient
    /\ InitNoBuffer
    /\ Cache = FALSE
    /\ HTTP = {DoOK(BodyPadded)}
    /\ UserAgent = ""
    /\ quota = MaxCancelChecks

\* Callers for one password, each with a context of its own that it may cancel.
NextCancel ==
    \E c \in 1..NCancelCallers :
        \/ Check(c, "password1")
        \/ Step(c)
        \/ Cancel(c)

SpecCancel == InitCancel /\ [][NextCancel]_vars

------------------------------------------------------------------------------
(***************************************************************************)
(* A pwnedResultBuffer on its own, as in TestPwnedResultParsing: the       *)
(* Buffer is filled with the bytes of an example, Parse is called on it,   *)
(* then Lookup.  An example is a list of lines, each HEXSUFFIX:COUNT or a  *)
(* line that is not of the pattern (no suffix), the line terminator of the *)
(* body, and whether the last line has one.                                *)
(***************************************************************************)
Hex16     == <<48, 49, 50, 51, 52, 53, 54, 55, 56, 57, 65, 66, 67, 68, 69, 70>>
Suffix012 == Hex16 \o Hex16 \o <<48, 49, 50>>    \* 0123456789ABCDEF0123456789ABCDEF012
Suffix013 == Hex16 \o Hex16 \o <<48, 49, 51>>    \* 0123456789ABCDEF0123456789ABCDEF013
Suffix112 == <<49>> \o Tail(Suffix012)           \* 1123456789ABCDEF0123456789ABCDEF012
CantExist == <<99, 97, 110, 116, 101, 120, 105, 115, 116>>          \* cantexist
InvalidExample ==                                                  \* invalid example
    <<105, 110, 118, 97, 108, 105, 100, 32, 101, 120, 97, 109, 112, 108, 101>>

ExampleSuffixes == {Suffix012, Suffix013, Suffix112}
ExampleCounts   == {<<48>>, <<49>>, <<48, 48>>}     \* 0, 1, 00
ExampleLines    ==
    {[suffix |-> x, count |-> n] : x \in ExampleSuffixes, n \in ExampleCounts}
    \cup {[suffix |-> <<>>, count |-> <<>>]}
Examples ==
    [lines : UNION {[1..k -> ExampleLines] : k \in 0..MaxLines},
     eol   : {<<NewLine>>, CRLF},
     last  : BOOLEAN]

\* The suffixes Lookup is asked for.
LookupSuffixes == ExampleSuffixes \cup {CantExist}

\* The bytes of a line, without its terminator, and of an example.
LineBytes(l) ==
    IF l.suffix = <<>> THEN InvalidExample ELSE l.suffix \o <<Colon>> \o l.count

RECURSIVE ExampleBytes(_, _)
ExampleBytes(e, i) ==
    IF i > Len(e.lines) THEN <<>>
    ELSE LineBytes(e.lines[i])
         \o (IF i < Len(e.lines) \/ e.last THEN e.eol ELSE <<>>)
         \o ExampleBytes(e, i + 1)

\* buf := &pwnedResultBuffer{Buffer: ...}; buf.Buffer.WriteString(example).
InitParse ==
    /\ InitClient
    /\ Cache = FALSE
    /\ HTTP = {}
    /\ UserAgent = ""
    /\ quota = 0
    /\ example \in Examples
    /\ result = [EmptyBuffer EXCEPT !.Buffer = ExampleBytes(example, 1)]
    /\ step = "Parse"
    /\ looked = NoLookup

\* Parse up to its loop: buf.SuffixesSorted = true.
ParseBegin ==
    /\ step = "Parse"
    /\ result' = [result EXCEPT !.SuffixesSorted = TRUE]
    /\ step' = "ReadBytes"
    /\ UNCHANGED <<example, looked, clientVars>>

\* One turn of the loop of Parse.
ParseIteration ==
    /\ step = "ReadBytes"
    /\ result' = ParseTurn(result).buf
    /\ step' = IF ParseTurn(result).running THEN "ReadBytes" ELSE "Reset"
    /\ UNCHANGED <<example, looked, clientVars>>

\* The deferred buf.Buffer.Reset() of Parse.
ParseReturn ==
    /\ step = "Reset"
    /\ result' = [result EXCEPT !.Buffer = <<>>]
    /\ step' = "parsed"
    /\ UNCHANGED <<example, looked, clientVars>>

\* buf.Lookup(suffix) on the parsed buffer.
LookupCall ==
    /\ step = "parsed"
    /\ \E suffix \in LookupSuffixes :
         looked' = [suffix |-> suffix, found |-> Lookup(result, suffix)]
    /\ step' = "looked"
    /\ UNCHANGED <<example, result, clientVars>>

NextParse == ParseBegin \/ ParseIteration \/ ParseReturn \/ LookupCall

SpecParse == InitParse /\ [][NextParse]_vars

(***************************************************************************)
(* Bodies with lines that pwnedLinePattern does not match.  A line is its  *)
(* bytes without the terminator, and whether it is an entry HEXSUFFIX:COUNT *)
(* or not; each line that is not an entry misses one part of the pattern.  *)
(***************************************************************************)
MaxBodyLines == 3   \* lines of a response body with lines that are not entries

Lower16 == <<48, 49, 50, 51, 52, 53, 54, 55, 56, 57, 97, 98, 99, 100, 101, 102>>

EntryBytes ==
    {Suffix012 \o <<Colon, 49>>,             \* ...012:1
     Suffix013 \o <<Colon, 49>>,             \* ...013:1
     Suffix013 \o <<Colon, ZeroDigit>>}      \* ...013:0

SkippedBytes ==
    {<<>>,                                        \* an empty line
     InvalidExample,                              \* invalid example
     Lower16 \o Lower16 \o <<48, 49, 50, Colon, 49>>,  \* a suffix in lower case
     Tail(Suffix012) \o <<Colon, 49>>,            \* a suffix of 34 characters
     Suffix012 \o <<Colon>>}                      \* no count

BodyLines ==
    {[entry |-> TRUE, bytes |-> x] : x \in EntryBytes}
    \cup {[entry |-> FALSE, bytes |-> x] : x \in SkippedBytes}

SkippedExamples ==
    [lines : UNION {[1..k -> BodyLines] : k \in 0..MaxBodyLines},
     eol   : {<<NewLine>>, CRLF},
     last  : BOOLEAN]

\* The bytes of a body: its lines with the terminator eol, the last line
\* with it or without.
RECURSIVE BodyBytes(_, _, _, _)
BodyBytes(lines, eol, last, i) ==
    IF i > Len(lines) THEN <<>>
    ELSE lines[i].bytes
         \o (IF i < Len(lines) \/ last THEN eol ELSE <<>>)
         \o BodyBytes(lines, eol, last, i + 1)

\* buf := &pwnedResultBuffer{Buffer: ...}; buf.Buffer.WriteString(example).
InitSkipped ==
    /\ InitClient
    /\ Cache = FALSE
    /\ HTTP = {}
    /\ UserAgent = ""
    /\ quota = 0
    /\ example \in SkippedExamples
    /\ result = [EmptyBuffer EXCEPT
                    !.Buffer = BodyBytes(example.lines, example.eol, example.last, 1)]
    /\ step = "Parse"
    /\ looked = NoLookup

SpecSkipped == InitSkipped /\ [][NextParse]_vars

------------------------------------------------------------------------------
(***************************************************************************)
(* Vocabulary of the properties.                                           *)
(***************************************************************************)
BoxIds == 1..Len(boxes)
BoxesOf(p) == {b \in BoxIds : boxes[b].prefix = p}

\* The network request of box b is in flight: its doRequest is inside client.Do.
InFlight(b) == \E c \in Callers : pc[c] = "Do" /\ call[c].box = b

\* Caller c holds (or held, in its last Check) box b and has got the outcome
\* of b.Value().
PastValue(c, b) ==
    /\ call[c].box = b
    /\ pc[c] \in {"Release", "OnRelease", "releaseRequest", "releaseUnlock", "Clear",
                  "panic", "idle"}

\* Every Check call that acquired box b has returned.
AllReturned(b) == boxes[b].acquires > 0 /\ boxes[b].returned = boxes[b].acquires

\* No Check call for prefix p has released its box yet.
NoneReleased(p) == \A b \in BoxesOf(p) : boxes[b].releases = 0

\* The Check calls for prefix p that have joined a box.
RECURSIVE SumAcquires(_)
SumAcquires(B) ==
    IF B = {} THEN 0
    ELSE LET b == CHOOSE x \in B : TRUE IN boxes[b].acquires + SumAcquires(B \ {b})
Joined(p) == SumAcquires(BoxesOf(p))

(***************************************************************************)
(* C1.  When two or more Check calls for one prefix run simultaneously     *)
(* (each has joined the prefix's box through doCheck before any of them    *)
(* has released it; no cache), the transport's Do is called exactly once   *)
(* for the prefix: never more than once, and once as soon as one of the    *)
(* calls has the outcome of Value.                                         *)
(***************************************************************************)
C1_SingleRequest ==
    \A p \in Prefixes :
        (~Cache /\ NoneReleased(p) /\ Joined(p) >= 2) =>
            /\ called[p] <= 1
            /\ (\E c \in Callers : pc[c] = "Release" /\ call[c].box \in BoxesOf(p))
                  => called[p] = 1

\* Every caller at once in a call, all with the outcome of the one request.
C1_Witness ==
    /\ ~Cache
    /\ \A c \in Callers : pc[c] = "Release" /\ call[c].box = 1
    /\ boxes[1].releases = 0
    /\ called[boxes[1].prefix] = 1

(***************************************************************************)
(* C2.  In every reachable state at most one network request per hash      *)
(* prefix is in flight.                                                    *)
(***************************************************************************)
C2_OneInFlight ==
    \A p \in Prefixes : Cardinality({b \in BoxesOf(p) : InFlight(b)}) <= 1

(***************************************************************************)
(* C3.  For each box doRequest runs exactly once however many holders call *)
(* Value (never twice, and once when Value has completed), and every       *)
(* holder gets the same outcome: what Check returns to it is what Check    *)
(* makes of the one memoized (res, err) of the box.                        *)
(***************************************************************************)
C3_OnceSameOutcome ==
    \A b \in BoxIds :
        /\ boxes[b].runs <= 1
        /\ called[boxes[b].prefix] = Cardinality({x \in BoxesOf(boxes[b].prefix) : boxes[x].runs = 1})
        /\ boxes[b].once = "done" => boxes[b].runs = 1
        /\ \A c \in Callers :
             PastValue(c, b) =>
                /\ boxes[b].once = "done"
                /\ call[c].ret = CheckResult(boxes[b].res, boxes[b].buf, SuffixOf(call[c].pw))
                /\ \A d \in Callers :
                     PastValue(d, b) => /\ call[d].ret.err = call[c].ret.err
                                        /\ call[d].ret.resp = call[c].ret.resp

\* Two holders of one box that both got the one response of its one request,
\* a 400, as the Response of their errors.
C3_Witness ==
    /\ boxes # <<>>
    /\ boxes[1].acquires = 2
    /\ boxes[1].runs = 1
    /\ \A c \in 1..2 : PastValue(c, 1) /\ call[c].ret = Ret(FALSE, "unexpected", <<1, 1>>)

(***************************************************************************)
(* C4.  Once every Check call that held the box of a prefix has returned,  *)
(* the table holds no entry for it (no box whose holders have all returned *)
(* is in the table, and no entry at all for the prefix when that is so of  *)
(* every box of the prefix), and the next Check for the prefix creates a   *)
(* new box, whose Value issues a new network call: every box that was run  *)
(* made its own call of Do.                                                *)
(***************************************************************************)
Quiet(p) == BoxesOf(p) # {} /\ \A b \in BoxesOf(p) : AllReturned(b)

C4_NoEntry ==
    /\ \A b \in BoxIds : AllReturned(b) => requests[boxes[b].prefix] # b
    /\ \A p \in Prefixes : Quiet(p) => requests[p] = 0
    /\ \A p \in Prefixes :
         called[p] = Cardinality({b \in BoxesOf(p) : boxes[b].once # "new"})

C4_FreshTask ==
    \A c \in Callers :
        (/\ pc[c] = "doCheck"
         /\ pc'[c] = "doCheckUnlock"
         /\ Quiet(PrefixOf(call[c].pw)))
        => /\ Len(boxes') = Len(boxes) + 1
           /\ call'[c].box = Len(boxes')
           /\ boxes'[Len(boxes')].once = "new"
           /\ boxes'[Len(boxes')].res = NoResult

\* C4: no entry is left once the holders have returned, and the doCheck that
\* follows builds a fresh box.
C4_FreshAfterRelease == [](C4_NoEntry) /\ [][C4_FreshTask]_vars

\* The holders of the first box have returned, and a later Check for the
\* prefix has run a second box: two calls of Do.
C4_Witness ==
    /\ Len(boxes) >= 2
    /\ AllReturned(1)
    /\ boxes[2].prefix = boxes[1].prefix
    /\ boxes[2].once = "done"
    /\ called[boxes[1].prefix] = 2
    /\ requests[boxes[1].prefix] = 2

(***************************************************************************)
(* C5.  With a cache, when Cache.Contains(prefix, suffix) returns true,    *)
(* Check returns (true, nil) at once: the call has joined or created no    *)
(* box, and has neither waited for a Value, nor made a network call, nor   *)
(* called Cache.Add (it is at none of the steps that do).                  *)
(***************************************************************************)
C5_CacheHit ==
    \A c \in Callers :
        (Cache /\ call[c].contains = "hit") =>
            /\ pc[c] = "idle"
            /\ call[c].ret = Ret(TRUE, "nil", <<>>)
            /\ call[c].box = 0

\* A Check that found its suffix in the cache, after the one fetch that put
\* it there.
C5_Witness ==
    /\ Cache
    /\ \E c \in Callers : call[c].contains = "hit" /\ call[c].ret.found
    /\ Len(boxes) = 1
    /\ called[PrefixOf("password1")] = 1

(***************************************************************************)
(* C6.  When Cache.Contains returns an error, Check returns that error at  *)
(* once: the call has joined or created no box, and has neither made a     *)
(* network call nor called Cache.Add.                                      *)
(***************************************************************************)
C6_CacheError ==
    \A c \in Callers :
        call[c].contains = "err" =>
            /\ pc[c] = "idle"
            /\ call[c].ret.err = "contains"
            /\ call[c].box = 0

\* The only Check so far got an error from Contains: no box, no call of Do.
C6_Witness ==
    /\ call[1].contains = "err"
    /\ quota = MaxCacheChecks - 1
    /\ boxes = <<>>
    /\ \A p \in Prefixes : called[p] = 0

(***************************************************************************)
(* C7.  With a cache, a fetch that got a 200 whose body was read and       *)
(* parsed into at least one suffix calls Cache.Add exactly once, with the  *)
(* prefix the holders of the box asked for and exactly the suffixes Parse  *)
(* left in the buffer (for the body with a padding line: the one suffix of *)
(* its other line); no box calls Add twice, however many Check calls hold  *)
(* it.                                                                     *)
(***************************************************************************)
C7_OneAdd ==
    \A b \in BoxIds :
        /\ boxes[b].adds <= 1
        /\ (/\ Cache
            /\ boxes[b].once = "done"
            /\ boxes[b].out.status = StatusOK
            /\ ~boxes[b].out.readErr
            /\ Len(boxes[b].buf.Suffixes) > 0)
           => /\ boxes[b].adds = 1
              /\ boxes[b].addSuffixes = boxes[b].buf.Suffixes
              /\ boxes[b].out.body = BodyPadded
                    => boxes[b].addSuffixes = <<SuffixOf("pw967768")>>
              /\ \A c \in Callers :
                    call[c].box = b => boxes[b].addPrefix = PrefixOf(call[c].pw)

\* Two Check calls shared the fetch of the body with a padding line: one Add.
C7_Witness ==
    /\ Len(boxes) = 1
    /\ boxes[1].acquires = 2
    /\ boxes[1].once = "done"
    /\ boxes[1].out.body = BodyPadded
    /\ boxes[1].adds = 1
    /\ boxes[1].addErr = "nil"
    /\ stored = {<<PrefixOf("pw967768"), SuffixOf("pw967768")>>}

(***************************************************************************)
(* C8.  Cache.Add is called only after the network call of the box has     *)
(* returned a 200 whose body was read and parsed into at least one suffix: *)
(* never while or before the request is made, nor after a transport or     *)
(* body-read failure, nor after another status, nor with zero suffixes.    *)
(***************************************************************************)
C8_AddAfterParse ==
    /\ \A b \in BoxIds :
         boxes[b].adds > 0 =>
            /\ boxes[b].runs = 1
            /\ ~InFlight(b)
            /\ ~boxes[b].out.err
            /\ ~boxes[b].out.readErr
            /\ boxes[b].out.status = StatusOK
            /\ boxes[b].parses = 1
            /\ Len(boxes[b].addSuffixes) > 0
    /\ \A c \in Callers :
         pc[c] = "Add" =>
            LET box == boxes[call[c].box]
            IN  /\ ~box.out.err /\ ~box.out.readErr /\ box.out.status = StatusOK
                /\ box.parses = 1
                /\ Len(box.buf.Suffixes) > 0
    /\ stored # {} => \E b \in BoxIds : boxes[b].adds > 0 /\ boxes[b].addErr = "nil"

\* A box whose fetch parsed no suffix made no Add, and a Check whose fetch
\* parsed one is about to call it.
C8_Witness ==
    /\ Len(boxes) = 2
    /\ boxes[1].once = "done"
    /\ boxes[1].out.body = BodyGarbage
    /\ boxes[1].out.status = StatusOK
    /\ boxes[1].adds = 0
    /\ \E c \in Callers : pc[c] = "Add" /\ call[c].box = 2

(***************************************************************************)
(* C9.  When Cache.Add returns an error after a successful fetch, every    *)
(* Check call that holds the box returns (false, that error), not the      *)
(* result of the lookup.                                                   *)
(***************************************************************************)
C9_AddError ==
    \A b \in BoxIds :
        boxes[b].addErr # "nil" =>
            /\ boxes[b].res.err = boxes[b].addErr
            /\ \A c \in Callers :
                 PastValue(c, b) => call[c].ret = Ret(FALSE, boxes[b].addErr, <<>>)

\* Two holders of the box whose Add failed, one of them asking for the suffix
\* the body lists: both are to return the error.
C9_Witness ==
    /\ Len(boxes) = 1
    /\ boxes[1].addErr = "add"
    /\ boxes[1].out.body = BodyPadded
    /\ \A c \in 1..2 : PastValue(c, 1) /\ call[c].ret.err = "add"
    /\ \E c \in 1..2 : call[c].pw = "pw967768"

(***************************************************************************)
(* C10.  When the transport answers with a status other than 200, every    *)
(* Check call on the box returns (false, *ErrorUnexpectedResponse) whose   *)
(* Response is that very response; the body is not parsed, Cache.Add is    *)
(* not called, and no second request is made for the box.                  *)
(***************************************************************************)
C10_UnexpectedResponse ==
    \A b \in BoxIds :
        (~boxes[b].out.err /\ boxes[b].out.status # 0 /\ boxes[b].out.status # StatusOK) =>
            /\ boxes[b].parses = 0
            /\ boxes[b].buf = EmptyBuffer
            /\ boxes[b].adds = 0
            /\ boxes[b].runs = 1
            /\ ~InFlight(b)
            /\ boxes[b].res = [resp |-> <<b, 1>>, status |-> boxes[b].out.status,
                               err |-> "nil", isBuf |-> FALSE]
            /\ \A c \in Callers :
                 PastValue(c, b) => call[c].ret = Ret(FALSE, "unexpected", <<b, 1>>)

\* A Check that returned the unexpected-response error of a 400.
C10_Witness ==
    /\ Len(boxes) = 1
    /\ boxes[1].out.status = StatusBadRequest
    /\ pc[1] = "idle"
    /\ call[1].ret = Ret(FALSE, "unexpected", <<1, 1>>)
    /\ AllReturned(1)

(***************************************************************************)
(* C11.  When client.Do returns an error, or reading the body of a 200     *)
(* fails, every Check call on the box returns (false, err) with err that   *)
(* very failure, and the box makes no second call of Do: doRequest ran     *)
(* once, parsed nothing and called no Cache.Add.                           *)
(***************************************************************************)
C11_Failure(b) ==
    IF boxes[b].out.err THEN "transport"
    ELSE IF boxes[b].out.status = StatusOK /\ boxes[b].out.readErr THEN "read"
    ELSE "nil"

C11_FailurePropagated ==
    \A b \in BoxIds :
        C11_Failure(b) # "nil" =>
            /\ boxes[b].runs = 1
            /\ ~InFlight(b)
            /\ boxes[b].once = "done"
            /\ boxes[b].parses = 0
            /\ boxes[b].adds = 0
            /\ boxes[b].res.err = C11_Failure(b)
            /\ \A c \in Callers :
                 PastValue(c, b) => call[c].ret = Ret(FALSE, C11_Failure(b), <<>>)

\* One Check got the failure of a body read, the next the failure of Do; each
\* box called Do once.
C11_Witness ==
    /\ Len(boxes) = 2
    /\ boxes[1].out = DoReadFails
    /\ boxes[2].out = DoFails
    /\ \E c \in Callers : PastValue(c, 1) /\ call[c].ret = Ret(FALSE, "read", <<>>)
    /\ \E c \in Callers : PastValue(c, 2) /\ call[c].ret = Ret(FALSE, "transport", <<>>)
    /\ called[boxes[1].prefix] = 2

(***************************************************************************)
(* Vocabulary of the properties of Parse and Lookup: what the example      *)
(* lists, read off its lines and not off the parsed buffer.                *)
(***************************************************************************)
\* The digits of a count write the integer zero.
IsZeroCount(count) == \A k \in 1..Len(count) : count[k] = ZeroDigit

\* The example has a line with the suffix; with the suffix and a non-zero count.
Listed(suffix) ==
    \E i \in 1..Len(example.lines) : example.lines[i].suffix = suffix
ListedNonZero(suffix) ==
    \E i \in 1..Len(example.lines) :
        /\ example.lines[i].suffix = suffix
        /\ ~IsZeroCount(example.lines[i].count)

\* The suffixes Parse has appended so far.
Appended == {result.Suffixes[k] : k \in 1..Len(result.Suffixes)}

(***************************************************************************)
(* C12.  For every body of lines HEXSUFFIX:COUNT (with lines that are not  *)
(* of the pattern among them, either line terminator, the last line        *)
(* terminated or not), after Parse, Lookup(s) returns true for every s the *)
(* body lists with a non-zero count and false for every s it does not      *)
(* list; and when SuffixesSorted is true the binary search answers as the  *)
(* linear scan would.                                                      *)
(***************************************************************************)
C12_ParseLookup ==
    /\ step = "looked" =>
          /\ ListedNonZero(looked.suffix) => looked.found
          /\ ~Listed(looked.suffix) => ~looked.found
    /\ (step = "parsed" /\ result.SuffixesSorted) =>
          \A suffix \in LookupSuffixes :
              Lookup(result, suffix) = (suffix \in Appended)

\* The binary search found the last of three suffixes listed in ascending
\* order, after bisecting twice.
C12_Witness ==
    /\ step = "looked"
    /\ result.SuffixesSorted
    /\ result.Suffixes = <<Suffix012, Suffix013, Suffix112>>
    /\ looked = [suffix |-> Suffix112, found |-> TRUE]

(***************************************************************************)
(* C13.  For every body in the wire format, the count being any string of  *)
(* digits, a suffix that the body lists only with a count of zero is never *)
(* in Suffixes, and Lookup of it returns false.                            *)
(***************************************************************************)
C13_ZeroCountExcluded ==
    \A suffix \in ExampleSuffixes :
        (Listed(suffix) /\ ~ListedNonZero(suffix)) =>
            /\ suffix \notin Appended
            /\ (step = "looked" /\ looked.suffix = suffix) => ~looked.found

(***************************************************************************)
(* Vocabulary of the properties of the request.                            *)
(***************************************************************************)
\* The bytes of a password.
PasswordBytes(password) ==
    CASE password = "password1" -> <<112, 97, 115, 115, 119, 111, 114, 100, 49>>
      [] password = "pw967768"  -> <<112, 119, 57, 54, 55, 55, 54, 56>>
      [] password = "hunter2"   -> <<104, 117, 110, 116, 101, 114, 50>>

\* part occurs in whole.
Contains(whole, part) ==
    \E i \in 1..(Len(whole) - Len(part) + 1) :
        SubSeq(whole, i, i + Len(part) - 1) = part

\* The first five characters of the hash of a password.
FirstFive(password) == SubSeq(Sha1Hex(password), 1, 5)

\* The boxes whose doRequest has built its request.
Requested == {b \in BoxIds : boxes[b].runs > 0}

(***************************************************************************)
(* C14.  The request handed to the transport is that of the first five     *)
(* characters of the hash and of the configured User-Agent only: the       *)
(* request a Check call waits for is a GET of the range URL followed by    *)
(* those five characters and nothing else, it contains neither the         *)
(* password nor the rest of the hash, and the requests of two Check calls  *)
(* whose hashes share the five characters are identical, those of two that *)
(* do not are not.                                                         *)
(***************************************************************************)
C14_PrefixOnly ==
    /\ \A c \in Callers :
         (call[c].box \in Requested) =>
            LET req == boxes[call[c].box].req
                pw  == call[c].pw
            IN  /\ req.method = "GET"
                /\ req.url = RangeURL \o FirstFive(pw)
                /\ req.userAgent = (IF UserAgent = "" THEN DefaultUserAgent ELSE UserAgent)
                /\ ~Contains(req.url, SuffixOf(pw))
                /\ ~Contains(req.url, PasswordBytes(pw))
    /\ \A c, d \in Callers :
         (call[c].box \in Requested /\ call[d].box \in Requested) =>
            ((boxes[call[c].box].req = boxes[call[d].box].req)
                <=> (FirstFive(call[c].pw) = FirstFive(call[d].pw)))

\* Two Check calls for passwords whose hashes share the prefix and differ in
\* the suffix, each with a request of its own: the two requests are the same.
C14_Witness ==
    /\ call[1].pw = "password1"
    /\ call[2].pw = "pw967768"
    /\ call[1].box # call[2].box
    /\ call[1].box \in Requested
    /\ call[2].box \in Requested
    /\ boxes[call[1].box].req = boxes[call[2].box].req
    /\ UserAgent = "test"

C16_OnReleaseOnce ==
    \A b \in BoxIds :
        /\ boxes[b].onReleaseCalls <= 1
        /\ AllReturned(b) => boxes[b].onReleaseCalls = 1

(***************************************************************************)
(* C17.  A box returned by doCheck is never one that is already torn down  *)
(* (its Refcount has reached zero, or its OnRelease has started or         *)
(* finished), and no such box is in the table when a new caller is about   *)
(* to look its prefix up.                                                  *)
(***************************************************************************)
TornDown(b) ==
    \/ boxes[b].onReleaseCalls > 0
    \/ \E c \in Callers : call[c].box = b /\ pc[c] \in {"OnRelease", "panic"}

C17_NoTornDownJoin ==
    \A c \in Callers :
        /\ pc[c] = "doCheckUnlock" => ~TornDown(call[c].box)
        /\ (pc[c] = "doCheck" /\ lock = 0 /\ requests[PrefixOf(call[c].pw)] # 0)
              => ~TornDown(requests[PrefixOf(call[c].pw)])

(***************************************************************************)
(* C18.  c.lock is held only during the lookup, insert and Acquire of      *)
(* doCheck and the removal of releaseRequest: whoever holds it is at the   *)
(* Unlock that ends one of the two, which nothing delays; no caller holds  *)
(* it while its call of Do, its wait on Value or its Cache.Add is in       *)
(* progress; so, in a process that has not died, a Check that is about to  *)
(* enter doCheck finds the lock free or about to be freed, also while a    *)
(* fetch for another prefix is in flight.                                  *)
(***************************************************************************)
C18_LockScope ==
    /\ lock # 0 => pc[lock] \in {"doCheckUnlock", "releaseUnlock"}
    /\ \A c \in Callers : pc[c] \in {"Value", "Do", "Add"} => lock # c
    /\ (lock # 0 /\ ~panicked) =>
          ENABLED (doCheckReturn(lock) \/ releaseRequestReturn(lock))
    /\ \A c \in Callers :
          (pc[c] = "doCheck" /\ lock = 0 /\ ~panicked) => ENABLED doCheck(c)

\* While the fetch for the prefix of "password1" is in flight, a Check for
\* "hunter2" is inside doCheck, with the lock.
C18_Witness ==
    /\ pc[1] = "Do"
    /\ call[1].pw = "password1"
    /\ pc[2] = "doCheckUnlock"
    /\ call[2].pw = "hunter2"
    /\ lock = 2
    /\ InFlight(call[1].box)

(***************************************************************************)
(* C19.  After Parse, SuffixesSorted is true exactly when every suffix in  *)
(* Suffixes is greater than the one appended before it; and it is turned   *)
(* false only by the appending of a suffix that compares less than or      *)
(* equal to the one before it: from the first turn of the loop of Parse    *)
(* on, the flag is false exactly when Suffixes holds such a suffix.        *)
(***************************************************************************)
StrictlyAscending(suffixes) ==
    \A k \in 2..Len(suffixes) : Compare(suffixes[k - 1], suffixes[k]) < 0

C19_SortedAccurate ==
    step \in {"ReadBytes", "Reset", "parsed", "looked"} =>
        (result.SuffixesSorted <=> StrictlyAscending(result.Suffixes))

(***************************************************************************)
(* Vocabulary of C20: the order of the lines of the example.               *)
(***************************************************************************)
\* The lines HEXSUFFIX:COUNT of the example, in order.
EntryLines == SelectSeq(example.lines, LAMBDA l : l.suffix # <<>>)

\* Each of them has a greater suffix than the one before it.
LinesAscending ==
    \A k \in 2..Len(EntryLines) :
        Compare(EntryLines[k - 1].suffix, EntryLines[k].suffix) < 0

\* Lines i and i + 1 of the example are HEXSUFFIX:COUNT lines in descending
\* order of suffix.
DescendingPair(i) ==
    /\ example.lines[i].suffix # <<>>
    /\ example.lines[i + 1].suffix # <<>>
    /\ Compare(example.lines[i].suffix, example.lines[i + 1].suffix) > 0

(***************************************************************************)
(* C20, as claimed.  After Parse, a body whose lines are in ascending      *)
(* order of suffix has SuffixesSorted = true, and a body with any adjacent *)
(* pair of lines in descending order of suffix has SuffixesSorted = false. *)
(***************************************************************************)
C20_AnyDescendingPair ==
    step \in {"parsed", "looked"} =>
        /\ LinesAscending => result.SuffixesSorted
        /\ (\E i \in 1..(Len(example.lines) - 1) : DescendingPair(i))
              => ~result.SuffixesSorted

(***************************************************************************)
(* C20, amended.  After Parse, a body whose lines are in strictly          *)
(* ascending order of suffix has SuffixesSorted = true, and a body with an *)
(* adjacent pair of lines in descending order of suffix, the first of the  *)
(* two with a non-zero count, has SuffixesSorted = false.                  *)
(***************************************************************************)
C20_SortednessDetection ==
    step \in {"parsed", "looked"} =>
        /\ LinesAscending => result.SuffixesSorted
        /\ (\E i \in 1..(Len(example.lines) - 1) :
                DescendingPair(i) /\ ~IsZeroCount(example.lines[i].count))
              => ~result.SuffixesSorted

\* The out-of-order example of two lines: not sorted, and the linear scan
\* finds its second suffix.
C20_Witness ==
    /\ step = "looked"
    /\ example.lines = <<[suffix |-> Suffix112, count |-> <<49>>],
                         [suffix |-> Suffix012, count |-> <<49>>]>>
    /\ ~result.SuffixesSorted
    /\ result.Suffixes = <<Suffix112, Suffix012>>
    /\ looked = [suffix |-> Suffix012, found |-> TRUE]

(***************************************************************************)
(* Vocabulary of C21: the entries of a body, and what Parse makes of a     *)
(* body of the given lines.                                                *)
(***************************************************************************)
EntriesOf(lines) == SelectSeq(lines, LAMBDA l : l.entry)

ParsedFrom(lines, eol, last) ==
    Parse([EmptyBuffer EXCEPT !.Buffer = BodyBytes(lines, eol, last, 1)])

(***************************************************************************)
(* C21.  Parse never fails, and lines that are not of the pattern          *)
(* HEXSUFFIX:COUNT contribute nothing: Parse can always take its next step *)
(* and every turn of its loop but the last leaves fewer bytes to read; the *)
(* Suffixes and SuffixesSorted of a body are those of the body without its *)
(* lines that are not of the pattern, with the last line terminated or     *)
(* not; and a body without any line of the pattern (empty, or garbage      *)
(* only) has no suffixes and SuffixesSorted = true.                        *)
(***************************************************************************)
C21_SkippedLines ==
    /\ step = "Parse" => ENABLED ParseBegin
    /\ step = "ReadBytes" =>
          LET turn == ParseTurn(result)
          IN  /\ turn.running \in BOOLEAN
              /\ turn.running => Len(turn.buf.Buffer) < Len(result.Buffer)
              /\ ~turn.running => turn.buf.Buffer = <<>>
    /\ step = "Reset" => ENABLED ParseReturn
    /\ step \in {"parsed", "looked"} =>
          /\ \A last \in BOOLEAN :
                LET entries == ParsedFrom(EntriesOf(example.lines), example.eol, last)
                IN  /\ result.Suffixes = entries.Suffixes
                    /\ result.SuffixesSorted = entries.SuffixesSorted
          /\ EntriesOf(example.lines) = <<>> =>
                /\ result.Suffixes = <<>>
                /\ result.SuffixesSorted

\* Two entries in descending order with a line that is not of the pattern
\* between them, the last entry without a terminator: both are taken in and
\* the descent is seen.
C21_Witness ==
    /\ step = "parsed"
    /\ example.lines = <<[entry |-> TRUE, bytes |-> Suffix013 \o <<Colon, 49>>],
                         [entry |-> FALSE, bytes |-> InvalidExample],
                         [entry |-> TRUE, bytes |-> Suffix012 \o <<Colon, 49>>]>>
    /\ ~example.last
    /\ result.Suffixes = <<Suffix013, Suffix012>>
    /\ ~result.SuffixesSorted

(***************************************************************************)
(* C22.  The release callback of a task removes from c.requests only that  *)
(* task's own entry: releaseRequest, called by the OnRelease of a box, is  *)
(* never about to delete the entry of a later box for the same prefix that *)
(* still has holders (Refcount >= 1) or whose fetch is in flight.          *)
(***************************************************************************)
C22_OwnEntryOnly ==
    \A c \in Callers :
        (pc[c] = "releaseRequest" /\ lock = 0) =>
            LET own   == call[c].box
                entry == requests[boxes[own].prefix]
            IN  (entry # 0 /\ own < entry) =>
                    ~(boxes[entry].Refcount >= 1 \/ InFlight(entry))

(***************************************************************************)
(* C23.  With a transport whose every call returns, every Check call       *)
(* returns: the process never terminates abnormally inside Release         *)
(* (OnRelease is a function whenever it is called), and as long as a Check *)
(* call has not returned some caller can take a step (no deadlock on       *)
(* c.lock or on the once-only computation of a box).                       *)
(***************************************************************************)
\* Caller c is in a Check call that the model can take further: it is not
\* held at the creation of a box beyond MaxBoxes.
InCall(c) ==
    /\ pc[c] # "idle"
    /\ ~(pc[c] = "doCheck" /\ Len(boxes) = MaxBoxes
                           /\ requests[PrefixOf(call[c].pw)] = 0)

C23_ChecksReturn ==
    /\ ~panicked
    /\ \A c \in Callers : pc[c] = "OnRelease" => boxes[call[c].box].OnRelease
    /\ (\E c \in Callers : InCall(c)) => \E d \in Callers : ENABLED Step(d)

=============================================================================
